---- MODULE Spec2Model ----
(***************************************************************************)
(* Model of app.py: the paginated fetch of artifact records for one        *)
(* classification (fetch_data), the insert-or-replace write of the three   *)
(* tables (insert_frames), and the Streamlit handlers that run them        *)
(* against st.session_state (Collect Data, the view buttons, Insert).      *)
(*                                                                         *)
(* Values.  A Python value that may be None is a set with at most one      *)
(* element: None is {}, a present value v is {v}.  A dict is a function    *)
(* from the keys it holds; a missing key is a key outside its DOMAIN.      *)
(* A DataFrame is its columns and its rows.  A rowid table keyed by an     *)
(* INTEGER PRIMARY KEY is the set of its rows; artifact_colors, whose      *)
(* primary key admits NULL, is a bag of rows.                              *)
(***************************************************************************)
EXTENDS Integers, Sequences, FiniteSets, Bags, TLC

VARIABLES
    session_state,   \* st.session_state: the dict of lines 22-31
    classification,  \* the value of the "Enter a classification" text input
    db,              \* artifacts.db: the committed rows of the three tables
    msg,             \* what the last script run reported (st.error/success/warning)
    written,         \* history: lower-cased classification of every batch written
    f_args,          \* fetch_data under FetchSpec: its arguments and the API
    fs,              \* fetch_data under FetchSpec: the locals of the loop
    f_out            \* fetch_data under FetchSpec: what the call produced

vars == <<session_state, classification, db, msg, written, f_args, fs, f_out>>

----------------------------------------------------------------------------
(* Bounds of the model *)

MaxPages == 2       \* pages the remote API holds for a classification
MaxLimit == 3       \* limits tried for fetch_data under FetchSpec: 1..MaxLimit
MaxRows == 3        \* rows a table may hold; Insert is not taken beyond it

(* Program constants *)

DEFAULT_FETCH_LIMIT == 2500
PageSize == 100

----------------------------------------------------------------------------
(* Python values *)

None == {}

Some(v) == {v}

isna(v) == v = None

Get(obj, k) == IF k \in DOMAIN obj THEN obj[k] ELSE None

EmptyDict == [k \in {} |-> None]

\* str.lower() on the classifications the user may type
Lower(s) ==
    CASE s = "Coins" -> "coins"
      [] s = "COINS" -> "coins"
      [] s = "Vases" -> "vases"
      [] OTHER -> s

\* what the user may type: nothing, a classification, the same classification
\* in another case, another classification
Texts == {"", "Coins", "COINS", "Vases"}

----------------------------------------------------------------------------
(* The remote API: records as the object endpoint returns them *)

RecAmphora ==
    [id |-> {1}, title |-> {"Amphora"}, culture |-> {"Greek"},
     dated |-> {"5th century BCE"}, period |-> {"Archaic"},
     division |-> {"Ancient"}, medium |-> {"Terracotta"},
     dimensions |-> {"30 cm"}, weight |-> {"2 kg"},
     department |-> {"Ancient Art"}, accessionyear |-> {1920},
     imagecount |-> {2}, mediacount |-> {0}, colorcount |-> {2},
     rank |-> {10}, datedbegin |-> {-500}, datedend |-> {-400},
     colors |-> << [hue |-> {"Red"}, percent |-> {40}],
                   [hue |-> {"Grey"}, percent |-> {60}] >>]

\* the same id with other values: period missing, weight null, a colour
\* entry without the hue key
RecAmphoraRevised ==
    [id |-> {1}, title |-> {"Jar"}, culture |-> {"Greek"},
     dated |-> {"5th century BCE"},
     division |-> {"Ancient"}, medium |-> {"Terracotta"},
     dimensions |-> {"30 cm"}, weight |-> {},
     department |-> {"Ancient Art"}, accessionyear |-> {},
     imagecount |-> {}, mediacount |-> {1}, colorcount |-> {1},
     rank |-> {7}, datedbegin |-> {-500}, datedend |-> {},
     colors |-> << [hue |-> {"Red"}, percent |-> {70}],
                   [percent |-> {5}] >>]

\* every colour entry has a null hue
RecCoin ==
    [id |-> {2}, title |-> {"Denarius"}, culture |-> {"Roman"},
     dated |-> {"1st century"}, period |-> {},
     division |-> {"Ancient"}, medium |-> {"Silver"},
     department |-> {"Coins"}, accessionyear |-> {1950},
     imagecount |-> {1}, mediacount |-> {0}, colorcount |-> {0},
     rank |-> {3}, datedbegin |-> {1}, datedend |-> {100},
     colors |-> << [hue |-> {}, percent |-> {20}] >>]

\* no colors key at all
RecCoinBare ==
    [id |-> {2}, title |-> {"Sestertius"}, culture |-> {"Roman"},
     department |-> {"Coins"}, rank |-> {4}]

\* a record whose id is null
RecNoId ==
    [id |-> {}, title |-> {"Fragment"}, department |-> {"Ancient Art"},
     rank |-> {9},
     colors |-> << [hue |-> {"Blue"}, percent |-> {100}] >>]

\* the record lists one page may carry
PageBodies ==
    { <<>>,
      <<RecAmphora>>,
      <<RecAmphoraRevised, RecCoin>>,
      <<RecCoin>>,
      <<RecCoinBare>>,
      <<RecNoId, RecAmphora>> }

\* a page request fails (timeout, non-2xx status) or is answered with records
Fail == [status |-> "error"]

Page(body) == [status |-> "ok", records |-> body]

PageAnswers == {Page(body) : body \in PageBodies} \cup {Fail}

\* the info object of the payloads: absent, without "pages", or pages = n
InfoChoices == {None, Some(EmptyDict)} \cup {Some([pages |-> n]) : n \in 1..MaxPages}

\* a behaviour of the API for one classification: its pages and its info
Apis == [pages : [1..MaxPages -> PageAnswers], info : InfoChoices]

Payload(body, info) ==
    IF info = None THEN [records |-> body]
    ELSE [records |-> body, info |-> CHOOSE i \in info : TRUE]

Ok(payload) == [status |-> "ok", payload |-> payload]

\* requests.get(BASE_URL, params) followed by raise_for_status and json():
\* past its last page the API answers with no records
Respond(api, params) ==
    IF params.page \in DOMAIN api.pages
    THEN IF api.pages[params.page] = Fail THEN Fail
         ELSE Ok(Payload(api.pages[params.page].records, api.info))
    ELSE Ok(Payload(<<>>, api.info))

----------------------------------------------------------------------------
(* pandas: a DataFrame is its columns and the sequence of its rows *)

\* pd.DataFrame(rows) of a list of dicts; pd.DataFrame() is DataFrame(<<>>)
DataFrame(rows) ==
    [columns |-> UNION {DOMAIN rows[i] : i \in 1..Len(rows)}, rows |-> rows]

\* df.empty
empty(df) == df.rows = <<>> \/ df.columns = {}

\* df.dropna(subset=...) raises KeyError for a label that is no column of df
KeyError(df, subset) == ~(subset \subseteq df.columns)

Key(row, subset) == [k \in subset |-> row[k]]

RECURSIVE KeepFirst(_, _, _)
KeepFirst(rows, subset, seen) ==
    IF rows = <<>> THEN <<>>
    ELSE LET k == Key(Head(rows), subset)
         IN  IF k \in seen THEN KeepFirst(Tail(rows), subset, seen)
             ELSE <<Head(rows)>> \o KeepFirst(Tail(rows), subset, seen \cup {k})

RECURSIVE KeepLast(_, _)
KeepLast(rows, subset) ==
    IF rows = <<>> THEN <<>>
    ELSE LET k == Key(Head(rows), subset)
         IN  IF \E i \in 1..Len(Tail(rows)) : Key(Tail(rows)[i], subset) = k
             THEN KeepLast(Tail(rows), subset)
             ELSE <<Head(rows)>> \o KeepLast(Tail(rows), subset)

drop_duplicates_keep_last(df, subset) ==
    IF empty(df) THEN df
    ELSE [df EXCEPT !.rows = KeepLast(df.rows, subset)]

\* df.drop_duplicates(subset=..., keep="first"): an empty frame is returned as
\* it is, whatever its columns; missing values compare equal
drop_duplicates(df, subset) ==
    IF empty(df) THEN df
    ELSE [df EXCEPT !.rows = KeepFirst(df.rows, subset, {})]

dropna_dropping_nothing(df, subset) == df

\* df.dropna(subset=...)
dropna(df, subset) ==
    [df EXCEPT !.rows = SelectSeq(df.rows, LAMBDA row : \A k \in subset : ~isna(row[k]))]

\* pd.concat([a, b], ignore_index=True); frames that have rows have the same columns
concat(a, b) ==
    [columns |-> a.columns \cup b.columns, rows |-> a.rows \o b.rows]

----------------------------------------------------------------------------
(* fetch_data, lines 86-139 *)

API_KEY == "07e3776a-04b1-4c47-98c8-5a8dd7f08b51"

\* lines 102-115
MetaRow(obj, c) ==
    [id |-> Get(obj, "id"), title |-> Get(obj, "title"),
     culture |-> Get(obj, "culture"), dated |-> Get(obj, "dated"),
     period |-> Get(obj, "period"), division |-> Get(obj, "division"),
     medium |-> Get(obj, "medium"), dimensions |-> Get(obj, "dimensions"),
     weight |-> Get(obj, "weight"), department |-> Get(obj, "department"),
     accessionyear |-> Get(obj, "accessionyear"), classification |-> Some(c)]

\* lines 116-124
MediaRow(obj) ==
    [object_id |-> Get(obj, "id"), imagecount |-> Get(obj, "imagecount"),
     mediacount |-> Get(obj, "mediacount"), colorcount |-> Get(obj, "colorcount"),
     rank |-> Get(obj, "rank"), datedbegin |-> Get(obj, "datedbegin"),
     datedend |-> Get(obj, "datedend")]

\* obj.get("colors") or []
Colors(obj) == IF "colors" \in DOMAIN obj THEN obj.colors ELSE <<>>

\* lines 125-130
ColorRows(obj) ==
    [i \in 1..Len(Colors(obj)) |->
        [object_id |-> Get(obj, "id"), hue |-> Get(Colors(obj)[i], "hue"),
         percentage |-> Get(Colors(obj)[i], "percent")]]

RECURSIVE Flatten(_)
Flatten(seqs) == IF seqs = <<>> THEN <<>> ELSE Head(seqs) \o Flatten(Tail(seqs))

\* lines 88-92: the locals before the loop, and the first test of the loop;
\* requests is the list of the requests sent
FetchLocals(limit) ==
    [pc |-> IF 0 < limit THEN "loop" ELSE "after_loop",
     page |-> 1, collected |-> 0, raw_records |-> <<>>,
     meta_rows |-> <<>>, media_rows |-> <<>>, color_rows |-> <<>>,
     requests |-> <<>>]

\* raise_for_status or a timeout at line 94-95: the error names the page's URL
RaisedHTTPError(page) == [ok |-> FALSE, error |-> "HTTPError", page |-> page]

\* a KeyError of pandas names the missing column
RaisedKeyError(column) == [ok |-> FALSE, error |-> "KeyError", column |-> column]

Returned(meta_df, media_df, colors_df, raw_records) ==
    [ok |-> TRUE, meta_df |-> meta_df, media_df |-> media_df,
     colors_df |-> colors_df, raw_data |-> raw_records]

\* lines 93-134 and 92: one pass of the loop body, entered at pc = "loop", and
\* the test that decides on the next pass
FetchPage(s, c, limit, api) ==
    LET params == [apikey |-> API_KEY, classification |-> c,
                   size |-> PageSize, page |-> s.page]
        r == Respond(api, params)
        sent == [s EXCEPT !.requests = Append(@, params)]
    IN  IF r = Fail THEN [sent EXCEPT !.pc = "raised"]
        ELSE
        LET payload == r.payload
            records == IF "records" \in DOMAIN payload THEN payload.records ELSE <<>>
            page == s.page + 1
            collected == s.collected + Len(records)
        IN  IF records = <<>> THEN [sent EXCEPT !.pc = "after_loop"]
            ELSE [sent EXCEPT
                    !.raw_records = @ \o records,
                    !.meta_rows = @ \o [i \in 1..Len(records) |-> MetaRow(records[i], c)],
                    !.media_rows = @ \o [i \in 1..Len(records) |-> MediaRow(records[i])],
                    !.color_rows = @ \o Flatten([i \in 1..Len(records) |-> ColorRows(records[i])]),
                    !.collected = collected,
                    !.page = page,
                    !.pc = IF "info" \in DOMAIN payload
                              /\ page > (IF "pages" \in DOMAIN payload.info
                                         THEN payload.info.pages ELSE page)
                           THEN "after_loop"
                           ELSE IF collected < limit THEN "loop" ELSE "after_loop"]

\* lines 136-139
FetchReturn(s) ==
    LET meta == DataFrame(s.meta_rows)
        media == DataFrame(s.media_rows)
        colors == DataFrame(s.color_rows)
    IN  IF KeyError(colors, {"hue"}) THEN RaisedKeyError("hue")
        ELSE Returned(drop_duplicates(meta, {"id"}),
                      drop_duplicates(media, {"object_id"}),
                      dropna(colors, {"hue"}),
                      s.raw_records)

RECURSIVE FetchRun(_, _, _, _)
FetchRun(s, c, limit, api) ==
    CASE s.pc = "loop" -> FetchRun(FetchPage(s, c, limit, api), c, limit, api)
      [] s.pc = "after_loop" -> FetchReturn(s)
      [] OTHER -> RaisedHTTPError(s.page)

fetch_data(c, limit, api) == FetchRun(FetchLocals(limit), c, limit, api)

----------------------------------------------------------------------------
(* The store: init_db (lines 40-79) and insert_frames (lines 144-184) *)

\* the three tables as CREATE TABLE IF NOT EXISTS leaves a new database
init_db ==
    [artifact_metadata |-> {}, artifact_media |-> {}, artifact_colors |-> EmptyBag]

Max(S) == CHOOSE m \in S : \A x \in S : x <= m

\* the rowid SQLite gives a row inserted with a NULL INTEGER PRIMARY KEY
NextRowid(table, pk) ==
    IF table = {} THEN 1
    ELSE 1 + Max({CHOOSE v \in r[pk] : TRUE : r \in table})

insert_or_ignore(table, pk, vals) ==
    IF isna(vals[pk])
    THEN table \cup {[vals EXCEPT ![pk] = Some(NextRowid(table, pk))]}
    ELSE IF \E r \in table : r[pk] = vals[pk] THEN table ELSE table \cup {vals}

\* INSERT OR REPLACE into a table whose primary key pk is INTEGER PRIMARY KEY
\* (the rowid): a NULL key takes the next rowid, a key in use has its row deleted
insert_or_replace(table, pk, vals) ==
    IF isna(vals[pk])
    THEN table \cup {[vals EXCEPT ![pk] = Some(NextRowid(table, pk))]}
    ELSE {r \in table : r[pk] # vals[pk]} \cup {vals}

\* INSERT OR REPLACE INTO artifact_colors: the composite key (object_id, hue)
\* is a unique index, in which NULLs are distinct from one another
insert_or_replace_colors(table, vals) ==
    IF isna(vals.object_id) \/ isna(vals.hue)
    THEN table (+) SetToBag({vals})
    ELSE LET kept == {r \in BagToSet(table) :
                        ~(r.object_id = vals.object_id /\ r.hue = vals.hue)}
         IN  [r \in kept |-> table[r]] (+) SetToBag({vals})

\* cur.executemany on a rowid table: one INSERT OR REPLACE per record, in order
RECURSIVE executemany(_, _, _)
executemany(table, pk, records) ==
    IF records = <<>> THEN table
    ELSE executemany(insert_or_replace(table, pk, Head(records)), pk, Tail(records))

RECURSIVE executemany_colors(_, _)
executemany_colors(table, records) ==
    IF records = <<>> THEN table
    ELSE executemany_colors(insert_or_replace_colors(table, Head(records)), Tail(records))

\* lines 152-161, 168-171, 178-181: the tuple bound for each row, None for a
\* missing value (the ids of the model are integers, which int() leaves as they are)
Records(df, cols) ==
    [i \in 1..Len(df.rows) |-> [c \in cols |-> Get(df.rows[i], c)]]

MetaCols ==
    {"id", "title", "culture", "dated", "period", "division", "medium",
     "dimensions", "weight", "department", "accessionyear", "classification"}

MediaCols ==
    {"object_id", "imagecount", "mediacount", "colorcount", "rank",
     "datedbegin", "datedend"}

ColorCols == {"object_id", "hue", "percentage"}

Tables == <<"artifact_metadata", "artifact_media", "artifact_colors">>

\* the sqlite3.Error that executemany raises on a table
StoreError(table) == [ok |-> FALSE, error |-> "sqlite3.Error", table |-> table]

\* what the store holds when the connection is dropped with its transaction open
left_by_writes_kept(committed, txn) == txn

\* insert_frames raised before conn.commit() (line 183): the connection goes
\* with the writes of its open transaction, the store keeps what was committed
left_by_open_transaction(committed, txn) == committed

\* insert_frames on the store; fault names the table whose executemany raises
\* sqlite3.Error ("none": no statement fails)
insert_frames(store, meta_df, media_df, colors_df, fault) ==
    LET t1 == IF empty(meta_df) THEN store
              ELSE [store EXCEPT !.artifact_metadata =
                        executemany(@, "id", Records(meta_df, MetaCols))]
        t2 == IF empty(media_df) THEN t1
              ELSE [t1 EXCEPT !.artifact_media =
                        executemany(@, "object_id", Records(media_df, MediaCols))]
        t3 == IF empty(colors_df) THEN t2
              ELSE [t2 EXCEPT !.artifact_colors =
                        executemany_colors(@, Records(colors_df, ColorCols))]
    IN  IF fault = Tables[1] /\ ~empty(meta_df)
        THEN [ok |-> FALSE, e |-> StoreError(fault), db |-> left_by_open_transaction(store, store)]
        ELSE IF fault = Tables[2] /\ ~empty(media_df)
        THEN [ok |-> FALSE, e |-> StoreError(fault), db |-> left_by_open_transaction(store, t1)]
        ELSE IF fault = Tables[3] /\ ~empty(colors_df)
        THEN [ok |-> FALSE, e |-> StoreError(fault), db |-> left_by_open_transaction(store, t2)]
        ELSE [ok |-> TRUE, db |-> t3]

Faults == {"none"} \cup {Tables[i] : i \in 1..3}

----------------------------------------------------------------------------
(* The Streamlit script: st.session_state and the handlers of one script run *)

\* lines 22-31
SessionDefaults ==
    [meta_df |-> None, media_df |-> None, colors_df |-> None,
     collected |-> FALSE, inserted |-> FALSE, show_choice |-> FALSE,
     migrate_click |-> FALSE, show_queries |-> FALSE, raw_data |-> <<>>,
     show_tables_after_insert |-> FALSE,
     combined_meta_df |-> DataFrame(<<>>), combined_media_df |-> DataFrame(<<>>),
     combined_colors_df |-> DataFrame(<<>>), inserted_classifications |-> {}]

\* the frame a session key holds once data was collected
Frame(v) == CHOOSE df \in v : TRUE

\* the messages of lines 273, 288, 290, 292, 348, 361 and 363
AlreadyInserted == "The classification has already been inserted!"

Collected == "Collected records."

CollectFailed == "Failed to collect data"

EnterClassification == "Please enter a classification to begin."

AlreadyExists == "The classification already exists!"

Inserted == "Data inserted into database successfully."

InsertFailed == "Insert failed"

NoMessage == [text |-> "", e |-> None]

Message(text, e) == [text |-> text, e |-> e]

\* the behaviours of the API that a session meets: one page; a second page
\* repeating an id of the first; a null id; hues all null; a page that fails
\* after the first succeeded; a failing first page; no records; no colours
RemoteApis ==
    { [pages |-> <<Page(<<RecAmphora>>)>>, info |-> Some([pages |-> 1])],
      [pages |-> <<Page(<<RecAmphoraRevised, RecCoin>>), Page(<<RecAmphora>>)>>,
       info |-> Some([pages |-> 2])],
      [pages |-> <<Page(<<RecNoId>>)>>, info |-> None],
      [pages |-> <<Page(<<RecCoin>>)>>, info |-> Some(EmptyDict)],
      [pages |-> <<Page(<<RecAmphora>>), Fail>>, info |-> Some([pages |-> 2])],
      [pages |-> <<Fail>>, info |-> None],
      [pages |-> <<Page(<<>>)>>, info |-> Some([pages |-> 1])],
      [pages |-> <<Page(<<RecCoinBare>>)>>, info |-> Some([pages |-> 1])] }

\* the results fetch_data(c) can give the Collect Data handler
FetchOutcomes ==
    [c \in Texts |-> {fetch_data(c, DEFAULT_FETCH_LIMIT, api) : api \in RemoteApis}]

collect_resetting_view_first(ss, c, out) ==
    LET shown == [ss EXCEPT !.inserted = FALSE,
                            !.show_choice = TRUE, !.migrate_click = FALSE,
                            !.show_queries = FALSE,
                            !.show_tables_after_insert = FALSE]
    IN  IF c = ""
        THEN [ss |-> ss, msg |-> Message(EnterClassification, None)]
        ELSE IF Lower(c) \in ss.inserted_classifications
        THEN [ss |-> ss, msg |-> Message(AlreadyInserted, None)]
        ELSE IF out.ok
        THEN [ss |-> [shown EXCEPT !.collected = TRUE,
                                   !.meta_df = Some(out.meta_df),
                                   !.media_df = Some(out.media_df),
                                   !.colors_df = Some(out.colors_df),
                                   !.raw_data = out.raw_data],
              msg |-> Message(Collected, None)]
        ELSE [ss |-> shown, msg |-> Message(CollectFailed, Some(out))]

\* lines 270-292: the Collect Data button, out being what fetch_data gave
collect(ss, c, out) ==
    IF c = ""
    THEN [ss |-> ss, msg |-> Message(EnterClassification, None)]
    ELSE IF Lower(c) \in ss.inserted_classifications
    THEN [ss |-> ss, msg |-> Message(AlreadyInserted, None)]
    ELSE IF out.ok
    THEN [ss |-> [ss EXCEPT !.meta_df = Some(out.meta_df),
                            !.media_df = Some(out.media_df),
                            !.colors_df = Some(out.colors_df),
                            !.raw_data = out.raw_data,
                            !.collected = TRUE, !.inserted = FALSE,
                            !.show_choice = TRUE, !.migrate_click = FALSE,
                            !.show_queries = FALSE,
                            !.show_tables_after_insert = FALSE],
          msg |-> Message(Collected, None)]
    ELSE [ss |-> ss, msg |-> Message(CollectFailed, Some(out))]

\* lines 346-363: the Insert button, res being what insert_frames gave
insert(ss, c, res) ==
    IF Lower(c) \in ss.inserted_classifications
    THEN [ss |-> ss, msg |-> Message(AlreadyExists, None)]
    ELSE IF res.ok
    THEN [ss |-> [ss EXCEPT
                    !.inserted = TRUE,
                    !.show_tables_after_insert = TRUE,
                    !.inserted_classifications = @ \cup {Lower(c)},
                    !.combined_meta_df =
                        drop_duplicates(concat(@, Frame(ss.meta_df)), {"id"}),
                    !.combined_media_df =
                        drop_duplicates(concat(@, Frame(ss.media_df)), {"object_id"}),
                    !.combined_colors_df =
                        drop_duplicates(concat(@, Frame(ss.colors_df)), {"object_id", "hue"})],
          msg |-> Message(Inserted, None)]
    ELSE [ss |-> ss, msg |-> Message(InsertFailed, Some(res.e))]

\* the classification under which the collected batch was fetched (line 114)
BatchClassification(ss) == CHOOSE c \in Frame(ss.meta_df).rows[1].classification : TRUE

Init ==
    /\ session_state = SessionDefaults
    /\ classification = ""
    /\ db = init_db
    /\ msg = NoMessage
    /\ written = {}
    /\ f_args = None
    /\ fs = None
    /\ f_out = None

FetchUnused == UNCHANGED <<f_args, fs, f_out>>

\* line 266: the user edits the text input; the script reruns with no button pressed
TypeClassification ==
    /\ \E text \in Texts : classification' = text
    /\ msg' = NoMessage
    /\ UNCHANGED <<session_state, db, written>>
    /\ FetchUnused

\* lines 270-292
CollectData ==
    /\ \E out \in FetchOutcomes[classification] :
          LET h == collect(session_state, classification, out)
          IN  session_state' = h.ss /\ msg' = h.msg
    /\ UNCHANGED <<classification, db, written>>
    /\ FetchUnused

\* lines 298-302
CollectedDataButton ==
    /\ session_state' = [session_state EXCEPT !.show_choice = TRUE,
                            !.migrate_click = FALSE, !.show_queries = FALSE,
                            !.show_tables_after_insert = FALSE]
    /\ msg' = NoMessage
    /\ UNCHANGED <<classification, db, written>>
    /\ FetchUnused

\* lines 304-308
MigrateButton ==
    /\ session_state' = [session_state EXCEPT !.migrate_click = TRUE,
                            !.show_choice = FALSE, !.show_queries = FALSE,
                            !.show_tables_after_insert = FALSE]
    /\ msg' = NoMessage
    /\ UNCHANGED <<classification, db, written>>
    /\ FetchUnused

\* lines 310-314
QueriesButton ==
    /\ session_state' = [session_state EXCEPT !.show_queries = TRUE,
                            !.show_choice = FALSE, !.migrate_click = FALSE,
                            !.show_tables_after_insert = FALSE]
    /\ msg' = NoMessage
    /\ UNCHANGED <<classification, db, written>>
    /\ FetchUnused

Rows(store) ==
    {Cardinality(store.artifact_metadata), Cardinality(store.artifact_media),
     BagCardinality(store.artifact_colors)}

\* lines 341-363: the Insert button, shown once Migrate to SQL was clicked and
\* data was collected
Insert ==
    /\ session_state.migrate_click
    /\ session_state.collected
    /\ \E fault \in Faults :
          LET gated == Lower(classification) \in session_state.inserted_classifications
              res == insert_frames(db, Frame(session_state.meta_df),
                                   Frame(session_state.media_df),
                                   Frame(session_state.colors_df), fault)
              h == insert(session_state, classification, res)
          IN  /\ gated => fault = "none"
              /\ ~gated => \A n \in Rows(res.db) : n <= MaxRows
              /\ session_state' = h.ss
              /\ msg' = h.msg
              /\ db' = IF gated THEN db ELSE res.db
              /\ written' = IF ~gated /\ res.ok
                            THEN written \cup {Lower(BatchClassification(session_state))}
                            ELSE written
    /\ UNCHANGED classification
    /\ FetchUnused

Next ==
    \/ TypeClassification
    \/ CollectData
    \/ CollectedDataButton
    \/ MigrateButton
    \/ QueriesButton
    \/ Insert

Spec == Init /\ [][Next]_vars

----------------------------------------------------------------------------
(* fetch_data on its own: one call, for every limit and behaviour of the API *)

Args == CHOOSE a \in f_args : TRUE

FetchInit ==
    /\ session_state = SessionDefaults
    /\ classification = ""
    /\ db = init_db
    /\ msg = NoMessage
    /\ written = {}
    /\ f_args \in {Some(a) : a \in [classification : {"Coins"}, limit : 1..MaxLimit, api : Apis]}
    /\ fs = Some(FetchLocals(Args.limit))
    /\ f_out = None

Locals == CHOOSE s \in fs : TRUE

Out == CHOOSE o \in f_out : TRUE

SessionUnused == UNCHANGED <<session_state, classification, db, msg, written>>

\* lines 92-134: the loop test, and one page requested and taken in
FetchLoop ==
    /\ fs # None /\ f_out = None
    /\ Locals.pc = "loop"
    /\ LET s == FetchPage(Locals, Args.classification, Args.limit, Args.api)
       IN  /\ fs' = Some(s)
           /\ f_out' = IF s.pc = "raised" THEN Some(RaisedHTTPError(Locals.page)) ELSE None
    /\ UNCHANGED f_args
    /\ SessionUnused

\* lines 136-139
FetchFinish ==
    /\ fs # None /\ f_out = None
    /\ Locals.pc = "after_loop"
    /\ f_out' = Some(FetchReturn(Locals))
    /\ fs' = Some([Locals EXCEPT !.pc = IF FetchReturn(Locals).ok THEN "returned" ELSE "raised"])
    /\ UNCHANGED f_args
    /\ SessionUnused

FetchNext ==
    \/ FetchLoop
    \/ FetchFinish

FetchSpec == FetchInit /\ [][FetchNext]_vars

\* the stepwise call ends with what fetch_data computes in one go
FetchStepsAgree ==
    f_out # None => Out = fetch_data(Args.classification, Args.limit, Args.api)

----------------------------------------------------------------------------
(* Claims on the store write *)

\* the collected batch of the session
Batch ==
    [meta_df |-> Frame(session_state.meta_df),
     media_df |-> Frame(session_state.media_df),
     colors_df |-> Frame(session_state.colors_df)]

Upserted(store, b) == insert_frames(store, b.meta_df, b.media_df, b.colors_df, "none").db

\* C1: for every store state and every batch a fetch produced, inserting the
\* batch twice leaves the three tables as inserting it once does, also when a
\* record of the batch has no id.
C1_InsertTwiceIsInsertOnce ==
    session_state.collected =>
        Upserted(Upserted(db, Batch), Batch) = Upserted(db, Batch)

\* an Insert was pressed in the step that led to this message
InsertMessages == {AlreadyExists, Inserted, InsertFailed}

\* C2: once a batch fetched for classification C was inserted in the session,
\* every later Insert of a batch fetched under C (ignoring case) is rejected
\* with the "already" message and writes nothing to the store.
C2_InsertedClassificationIsRejected ==
    [][(/\ msg'.text \in InsertMessages
        /\ session_state.collected
        /\ Lower(BatchClassification(session_state)) \in written)
       => (msg'.text = AlreadyExists /\ db' = db)]_vars

\* C3: no two artifact_metadata rows share an id, no two artifact_media rows an
\* object_id, no two artifact_colors rows the pair (object_id, hue), also when
\* a record has no id.
C3_KeysAreUnique ==
    /\ \A r1, r2 \in db.artifact_metadata : r1.id = r2.id => r1 = r2
    /\ \A r1, r2 \in db.artifact_media : r1.object_id = r2.object_id => r1 = r2
    /\ \A r1, r2 \in BagToSet(db.artifact_colors) :
          (r1.object_id = r2.object_id /\ r1.hue = r2.hue) => r1 = r2
    /\ \A r \in BagToSet(db.artifact_colors) : CopiesIn(r, db.artifact_colors) = 1

----------------------------------------------------------------------------
(* Claims on failures *)

HasPages(api) == api.info # None /\ "pages" \in DOMAIN (CHOOSE i \in api.info : TRUE)

\* with fewer than DEFAULT_FETCH_LIMIT records on the pages before it, page p
\* is requested when every page before it answered with records and the info
\* of those answers, if any, counts at least the page after them
IsRequested(api, p) ==
    \A q \in 1..(p - 1) :
        /\ api.pages[q] # Fail
        /\ api.pages[q].records # <<>>
        /\ HasPages(api) => q + 1 <= (CHOOSE i \in api.info : TRUE).pages

\* a failing page request makes the fetch raise that one error
TransportFailureSurfaces ==
    \A api \in Apis \cup RemoteApis : \A p \in DOMAIN api.pages :
        (IsRequested(api, p) /\ api.pages[p] = Fail)
            => fetch_data("Coins", DEFAULT_FETCH_LIMIT, api) = RaisedHTTPError(p)

\* C4: a Collect whose fetch fails, also after earlier pages succeeded, reports
\* one error and leaves the collected batch, the flags, the tracker and the
\* three tables as they were.
C4_FailedCollectChangesNothing ==
    [][/\ TransportFailureSurfaces
       /\ msg'.text = CollectFailed =>
            /\ session_state' = session_state
            /\ db' = db
            /\ written' = written
            /\ \E out \in msg'.e : ~out.ok]_vars

\* the second page failed after the first was taken in, in a session that
\* holds a batch and has inserted one
C4_Witness ==
    /\ msg = Message(CollectFailed, Some(RaisedHTTPError(2)))
    /\ session_state.collected
    /\ session_state.inserted_classifications # {}
    /\ db # init_db

\* what insert_frames had written to the tables before table number n
WrittenBefore(n) ==
    LET none == DataFrame(<<>>)
    IN  insert_frames(db, IF n > 1 THEN Batch.meta_df ELSE none,
                      IF n > 2 THEN Batch.media_df ELSE none, none, "none").db

----------------------------------------------------------------------------
(* Claims on fetch_data, under FetchSpec *)

HasReturned == f_out # None /\ Out.ok

\* C6: the number of raw records fetch_data returns is at most limit.
C6_AtMostLimitRecords ==
    HasReturned => Len(Out.raw_data) <= Args.limit

\* the first place of the raw records that holds the id
FirstWith(raw, id) ==
    CHOOSE i \in 1..Len(raw) :
        /\ Get(raw[i], "id") = id
        /\ \A j \in 1..(i - 1) : Get(raw[j], "id") # id

\* C7: an id that the pages return more than once has exactly one metadata row
\* and one media row, each with the values of its first occurrence in page
\* order; the ids of the metadata rows are the object_ids of the media rows.
C7_FirstOccurrenceKept ==
    HasReturned =>
        LET raw == Out.raw_data
            meta == Out.meta_df.rows
            media == Out.media_df.rows
        IN  /\ \A i \in 1..Len(raw) :
                  LET id == Get(raw[i], "id")
                      first == raw[FirstWith(raw, id)]
                  IN  /\ \E n \in 1..Len(meta) :
                            /\ meta[n] = MetaRow(first, Args.classification)
                            /\ \A m \in 1..Len(meta) : meta[m].id = id => m = n
                      /\ \E n \in 1..Len(media) :
                            /\ media[n] = MediaRow(first)
                            /\ \A m \in 1..Len(media) : media[m].object_id = id => m = n
            /\ {meta[n].id : n \in 1..Len(meta)}
                  = {media[n].object_id : n \in 1..Len(media)}
            /\ {meta[n].id : n \in 1..Len(meta)}
                  = {Get(raw[i], "id") : i \in 1..Len(raw)}

\* the pages returned an id twice, with other values the second time
C7_Witness ==
    /\ HasReturned
    /\ \E i, j \in 1..Len(Out.raw_data) :
          /\ i < j
          /\ Get(Out.raw_data[i], "id") = Get(Out.raw_data[j], "id")
          /\ Get(Out.raw_data[i], "id") # None
          /\ MetaRow(Out.raw_data[i], "Coins") # MetaRow(Out.raw_data[j], "Coins")
          /\ MediaRow(Out.raw_data[i]) # MediaRow(Out.raw_data[j])

\* no request of the call failed
NoRequestFailed ==
    \A i \in 1..Len(Locals.requests) : Respond(Args.api, Locals.requests[i]) # Fail

\* the records and the info of the last page requested
LastPayload == Respond(Args.api, Locals.requests[Len(Locals.requests)]).payload

\* one of the three reasons to stop holds after the last page requested
StopsAfterLastPage ==
    \/ Locals.collected >= Args.limit
    \/ LastPayload.records = <<>>
    \/ /\ "info" \in DOMAIN LastPayload
       /\ "pages" \in DOMAIN LastPayload.info
       /\ Len(Locals.requests) + 1 > LastPayload.info.pages

\* C10: when no request fails, fetch_data requests pages 1, 2, 3, ... in
\* order, stops after the first page at which the count has reached limit, or
\* that has no records, or whose successor exceeds info.pages, and then
\* returns its four outputs, also when the first page has no records and when
\* no record has a colour entry.
C10_PagesInOrderThenReturns ==
    (fs # None /\ NoRequestFailed) =>
        /\ \A i \in 1..Len(Locals.requests) : Locals.requests[i].page = i
        /\ Locals.requests # <<>> => (Locals.pc = "loop" <=> ~StopsAfterLastPage)
        /\ Locals.pc # "raised"

----------------------------------------------------------------------------
(* Claims on the rows written *)

\* the colour entries of the raw records that have a hue: <<record, entry>>
HueEntries(raw) ==
    UNION {{<<i, j>> : j \in {k \in 1..Len(Colors(raw[i])) :
                                Get(Colors(raw[i])[k], "hue") # None}} :
           i \in 1..Len(raw)}

\* a colour entry of the raw records that has no hue
HuelessEntry(raw) ==
    \E i \in 1..Len(raw) : \E j \in 1..Len(Colors(raw[i])) :
        Get(Colors(raw[i])[j], "hue") = None

\* C8: a colour entry without a hue gives no colour row in the fetch output
\* and no artifact_colors row; a colour entry with a hue gives a colour row
\* with the record's id, the hue and the percent.
C8_NoRowWithoutHue ==
    /\ \A r \in BagToSet(db.artifact_colors) : r.hue # None
    /\ session_state.collected =>
          LET raw == session_state.raw_data
              colors == Frame(session_state.colors_df).rows
          IN  /\ \A n \in 1..Len(colors) : colors[n].hue # None
              /\ \A p \in HueEntries(raw) :
                    \E n \in 1..Len(colors) :
                        /\ colors[n].object_id = Get(raw[p[1]], "id")
                        /\ colors[n].hue = Get(Colors(raw[p[1]])[p[2]], "hue")
                        /\ colors[n].percentage = Get(Colors(raw[p[1]])[p[2]], "percent")
              /\ Len(colors) = Cardinality(HueEntries(raw))

\* a batch with an entry that has a hue and an entry that has none was inserted
C8_Witness ==
    /\ session_state.collected
    /\ msg.text = Inserted
    /\ HuelessEntry(session_state.raw_data)
    /\ HueEntries(session_state.raw_data) # {}
    /\ db.artifact_colors # EmptyBag

\* the last row of the records that has the key of row n
LastWith(records, n) ==
    CHOOSE m \in n..Len(records) :
        /\ records[m].object_id = records[n].object_id
        /\ records[m].hue = records[n].hue
        /\ \A l \in (m + 1)..Len(records) :
              ~(records[l].object_id = records[n].object_id
                /\ records[l].hue = records[n].hue)

\* C9: after a batch with artifact id k is inserted, the stored metadata row
\* of k is the batch's row in every column, null columns and classification
\* included, whatever row the store held for k; likewise artifact_media on
\* object_id and artifact_colors on (object_id, hue), where the batch's last
\* row with the key is the one stored.
C9_StoredRowIsBatchRow ==
    [][(msg'.text = Inserted /\ session_state.collected) =>
          LET meta == Records(Batch.meta_df, MetaCols)
              media == Records(Batch.media_df, MediaCols)
              colors == Records(Batch.colors_df, ColorCols)
          IN  /\ \A n \in 1..Len(meta) : meta[n].id # None =>
                    {r \in db'.artifact_metadata : r.id = meta[n].id} = {meta[n]}
              /\ \A n \in 1..Len(media) : media[n].object_id # None =>
                    {r \in db'.artifact_media : r.object_id = media[n].object_id}
                        = {media[n]}
              /\ \A n \in 1..Len(colors) : colors[n].object_id # None =>
                    /\ {r \in BagToSet(db'.artifact_colors) :
                            r.object_id = colors[n].object_id /\ r.hue = colors[n].hue}
                          = {colors[LastWith(colors, n)]}
                    /\ CopiesIn(colors[LastWith(colors, n)], db'.artifact_colors) = 1]_vars

\* the store holds, for an id inserted before in the session, a row that
\* differs from the one first inserted: another title and classification, and
\* null where that one had a period
C9_Witness ==
    /\ msg.text = Inserted
    /\ \E r \in db.artifact_metadata :
          \E n \in 1..Len(session_state.combined_meta_df.rows) :
              LET old == session_state.combined_meta_df.rows[n]
              IN  /\ old.id = r.id
                  /\ old.title # r.title
                  /\ old.classification # r.classification
                  /\ old.period # None
                  /\ r.period = None

----------------------------------------------------------------------------
(* Claims on the tracker of inserted classifications *)

\* the labels st.session_state["inserted_classifications"] holds
Tracker == session_state.inserted_classifications

\* every label of the tracker is the lower-cased classification of a batch
\* that was fetched and written to the store in the session
C11_LabelsWereWritten == Tracker \subseteq written

\* a step neither removes a label nor adds one, unless it is an Insert that
\* wrote the batch
C11_GainsOnlyOnInsert ==
    [][/\ Tracker \subseteq Tracker'
       /\ Tracker' # Tracker => (msg'.text = Inserted /\ db' = Upserted(db, Batch))]_vars

\* C11: in every reachable state each label of inserted_classifications is the
\* lower-cased classification under which a batch was fetched and then written
\* to the store in the session; the tracker gains a label only on a successful
\* Insert, not on a failed Insert, a failed Collect or a view button, and it
\* never loses a label.
C11_TrackerIsSound == []C11_LabelsWereWritten /\ C11_GainsOnlyOnInsert

====
